---- MODULE Spec2Model ----
(***************************************************************************)
(* Model of website/visualization.js: the treemap script (sector liquidity *)
(* treemap, lines 1-232) and renderMarketViz (average % return bars,       *)
(* lines 235-623), both run by one page.                                   *)
(*                                                                         *)
(* Encoding of JavaScript values:                                          *)
(*   - a string is a sequence of one-character strings, the characters     *)
(*     being those of the set Ascii;                                       *)
(*   - undefined (a column missing from a CSV row) is the value UNDEF;     *)
(*   - a number is a fraction [num, den] in lowest terms with den > 0,     *)
(*     or one of Infinity (1/0), -Infinity (-1/0) and NaN (0/0); 0 and -0  *)
(*     are one number (the code never divides by a zero it computed);      *)
(*   - the numbers the code reads and adds are multiples of 1/4, which a   *)
(*     double holds exactly and adds without rounding, so that the sums of *)
(*     the model are the sums the code computes;                           *)
(*   - a quotient of two such numbers is the fraction itself. The code     *)
(*     holds the double nearest to it; for the magnitudes of the model two *)
(*     quotients round to the same double exactly when they are the same   *)
(*     fraction, and they compare as the fractions do;                     *)
(*   - a count of rows is an integer.                                      *)
(* Outside the encoding, and undefined in the model (the evaluation fails  *)
(* rather than giving a value the code does not give): the trimming and    *)
(* the lower case of a character that is not in Ascii, a number written by *)
(* a literal whose value is not a multiple of 1/4 (0.1), and numbers       *)
(* beyond the integers of the model checker.                               *)
(***************************************************************************)
EXTENDS Integers, Sequences, FiniteSets, TLC

\* ------------------------------------------------------------ bounds

\* Rows that the CSV files of the page hold together (the companies file and
\* the wide files apart)
MaxRows == 2
\* Rows of a "wide" CSV file: one row per asset, more assets than POS_N.
MaxWide == 12

\* ------------------------------------------------------------ strings

\* The value of a column that a row object does not have
UNDEF == <<"undefined">>

\* The characters of the model: the printing characters of ASCII, the grave
\* accent apart (no string of the module can hold it), and the white space
\* of ASCII (TAB, LF, VT, FF, CR)
Ascii ==
  {"\t", "\n", "", "\f", "\r",
   " ", "!", "\"", "#", "$", "%", "&", "'", "(", ")", "*", "+",
   ",", "-", ".", "/", "0", "1", "2", "3", "4", "5", "6", "7",
   "8", "9", ":", ";", "<", "=", ">", "?", "@", "A", "B", "C",
   "D", "E", "F", "G", "H", "I", "J", "K", "L", "M", "N", "O",
   "P", "Q", "R", "S", "T", "U", "V", "W", "X", "Y", "Z", "[",
   "\\", "]", "^", "_", "a", "b", "c", "d", "e", "f", "g",
   "h", "i", "j", "k", "l", "m", "n", "o", "p", "q", "r", "s",
   "t", "u", "v", "w", "x", "y", "z", "{", "|", "}", "~"}

\* A character of the model; undefined on anything else
Char(c) == CASE c \in Ascii -> c

\* WhiteSpace and LineTerminator of ECMAScript within Ascii: TAB, LF, VT, FF,
\* CR and SPACE
WhiteSpace == {"\t", "\n", "", "\f", "\r", " "}

IsWs(c) == Char(c) \in WhiteSpace

IsDigit(c) == c \in {"0", "1", "2", "3", "4", "5", "6", "7", "8", "9"}

DigitVal(c) ==
  CASE c = "0" -> 0 [] c = "1" -> 1 [] c = "2" -> 2 [] c = "3" -> 3
    [] c = "4" -> 4 [] c = "5" -> 5 [] c = "6" -> 6 [] c = "7" -> 7
    [] c = "8" -> 8 [] c = "9" -> 9

\* The letters that toLowerCase changes, and what it makes of them
UpperChars ==
  <<"A", "B", "C", "D", "E", "F", "G", "H", "I", "J", "K", "L", "M",
    "N", "O", "P", "Q", "R", "S", "T", "U", "V", "W", "X", "Y", "Z">>

LowerChars ==
  <<"a", "b", "c", "d", "e", "f", "g", "h", "i", "j", "k", "l", "m",
    "n", "o", "p", "q", "r", "s", "t", "u", "v", "w", "x", "y", "z">>

\* toLowerCase as a table from each such letter to its lower case
LowerCaseOf ==
  [c \in {UpperChars[i] : i \in 1..Len(UpperChars)} |->
     LowerChars[CHOOSE i \in 1..Len(UpperChars) : UpperChars[i] = c]]

LowerChar(c) ==
  IF Char(c) \in DOMAIN LowerCaseOf THEN LowerCaseOf[c] ELSE c

\* String.prototype.toLowerCase
ToLowerCase(s) == [i \in 1..Len(s) |-> LowerChar(s[i])]

RECURSIVE TrimStart(_)
TrimStart(s) ==
  IF s # << >> /\ IsWs(Head(s)) THEN TrimStart(Tail(s)) ELSE s

RECURSIVE TrimEnd(_)
TrimEnd(s) ==
  IF s # << >> /\ IsWs(s[Len(s)]) THEN TrimEnd(SubSeq(s, 1, Len(s) - 1)) ELSE s

\* String.prototype.trim
Trim(s) == TrimEnd(TrimStart(s))

\* String.prototype.replace(c, ""): the first occurrence only
RECURSIVE ReplaceFirst(_, _)
ReplaceFirst(s, c) ==
  IF s = << >> THEN << >>
  ELSE IF Head(s) = c THEN Tail(s)
  ELSE <<Head(s)>> \o ReplaceFirst(Tail(s), c)

\* String.prototype.replace(/c/g, ""): every occurrence
ReplaceAll(s, c) == SelectSeq(s, LAMBDA x : x # c)

\* p is the beginning of s
IsPrefix(p, s) == Len(p) <= Len(s) /\ SubSeq(s, 1, Len(p)) = p

\* x || y on strings: undefined and "" are falsy
OrElse(x, y) == IF x = UNDEF \/ x = << >> THEN y ELSE x

\* ------------------------------------------------------------ numbers

NaN == [num |-> 0, den |-> 0]

Infinity == [num |-> 1, den |-> 0]

MinusInfinity == [num |-> -1, den |-> 0]

\* isNaN on a number
IsNaN(x) == x = NaN

\* Neither NaN nor an infinity
IsFinite(x) == x.den # 0

Abs(n) == IF n < 0 THEN -n ELSE n

Sign(n) == IF n > 0 THEN 1 ELSE IF n < 0 THEN -1 ELSE 0

RECURSIVE GCD(_, _)
GCD(a, b) == IF b = 0 THEN a ELSE GCD(b, a % b)

\* The fraction n / d in lowest terms, for d > 0
Frac(n, d) ==
  LET g == GCD(Abs(n), d) IN [num |-> n \div g, den |-> d \div g]

\* The integer n as a number
Whole(n) == [num |-> n, den |-> 1]

Zero == Whole(0)

\* A finite number the code reads or adds: a multiple of 1/4; undefined on
\* the other fractions
Exact(x) == CASE x.den \in {1, 2, 4} -> x

\* -x
Neg(x) == [x EXCEPT !.num = -@]

\* Math.abs
AbsNum(x) == [x EXCEPT !.num = Abs(@)]

\* x + y: NaN when one is NaN or they are the two infinities, an infinity
\* when one is, the exact sum otherwise
Add(x, y) ==
  IF IsNaN(x) \/ IsNaN(y) THEN NaN
  ELSE IF ~IsFinite(x) THEN (IF ~IsFinite(y) /\ y # x THEN NaN ELSE x)
  ELSE IF ~IsFinite(y) THEN y
  ELSE Frac(Exact(x).num * y.den + Exact(y).num * x.den, x.den * y.den)

\* x / y: NaN when one is NaN, for two infinities and for 0 / 0; an infinity
\* for an infinity over a finite number and for a number over 0; 0 for a
\* finite number over an infinity
Div(x, y) ==
  IF IsNaN(x) \/ IsNaN(y) THEN NaN
  ELSE IF ~IsFinite(x)
  THEN (IF ~IsFinite(y) THEN NaN
        ELSE [num |-> IF y.num < 0 THEN -x.num ELSE x.num, den |-> 0])
  ELSE IF ~IsFinite(y) THEN Zero
  ELSE LET n == x.num * y.den
           d == x.den * y.num
       IN IF d = 0 THEN [num |-> Sign(n), den |-> 0]
          ELSE IF d < 0 THEN Frac(-n, -d)
          ELSE Frac(n, d)

\* x < y: false when one is NaN
FracLt(x, y) ==
  /\ ~IsNaN(x)
  /\ ~IsNaN(y)
  /\ x # y
  /\ IF ~IsFinite(x) THEN x = MinusInfinity
     ELSE IF ~IsFinite(y) THEN y = Infinity
     ELSE x.num * y.den < y.num * x.den

\* x || 0 on a number: NaN and 0 give 0
OrZero(x) == IF IsNaN(x) THEN Zero ELSE x

\* sum = 0; sum += v for each v of s
RECURSIVE SumOf(_)
SumOf(s) ==
  IF s = << >> THEN Zero
  ELSE Add(SumOf(SubSeq(s, 1, Len(s) - 1)), s[Len(s)])

\* d3.sum over the numbers an accessor returns: NaN and 0 are skipped
d3_sum(s) == SumOf(SelectSeq(s, LAMBDA v : ~IsNaN(v) /\ v # Zero))

\* d3.mean over the numbers an accessor returns: NaN is not counted;
\* undefined in the model when nothing is counted
d3_mean(s) ==
  LET counted == SelectSeq(s, LAMBDA v : ~IsNaN(v))
  IN CASE counted # << >> -> Div(SumOf(counted), Whole(Len(counted)))

\* ------------------------------------------------------------ parsing

\* The longest prefix of s made of digits
RECURSIVE DigitPrefix(_)
DigitPrefix(s) ==
  IF s # << >> /\ IsDigit(Head(s)) THEN <<Head(s)>> \o DigitPrefix(Tail(s))
  ELSE << >>

RECURSIVE DigitsValue(_)
DigitsValue(ds) ==
  IF ds = << >> THEN 0
  ELSE 10 * DigitsValue(SubSeq(ds, 1, Len(ds) - 1)) + DigitVal(ds[Len(ds)])

RECURSIVE Pow10(_)
Pow10(k) == IF k = 0 THEN 1 ELSE 10 * Pow10(k - 1)

InfinityLiteral == <<"I", "n", "f", "i", "n", "i", "t", "y">>

\* The one element of a set of one element. In Only({e(x) : x \in {d}}) the
\* value d is computed once, whatever the number of its uses in e.
Only(S) == CHOOSE x \in S : TRUE

\* The beginning of a StrDecimalLiteral: the sign, then either the word
\* Infinity (inf) or the digits before and after the point (ok), and the
\* characters they take
ScanMantissa(s) ==
  LET signed == s # << >> /\ Head(s) \in {"+", "-"}
      neg == s # << >> /\ Head(s) = "-"
      r1 == IF signed THEN Tail(s) ELSE s
      inf == IsPrefix(InfinityLiteral, r1)
      ip == DigitPrefix(r1)
      r2 == SubSeq(r1, Len(ip) + 1, Len(r1))
      dot == r2 # << >> /\ Head(r2) = "."
      fp == IF dot THEN DigitPrefix(Tail(r2)) ELSE << >>
      used == (IF signed THEN 1 ELSE 0)
              + (IF inf THEN Len(InfinityLiteral)
                 ELSE Len(ip) + (IF dot THEN 1 + Len(fp) ELSE 0))
  IN [ok |-> ip # << >> \/ fp # << >>, inf |-> inf, neg |-> neg, ip |-> ip,
      fp |-> fp, used |-> used]

\* The ExponentPart at the beginning of r (e or E, a sign, digits): its value
\* and the characters it takes, 0 and 0 when r does not begin with one
ScanExponent(r) ==
  LET esigned == Len(r) >= 2 /\ r[2] \in {"+", "-"}
      ed == IF r # << >> /\ Head(r) \in {"e", "E"}
            THEN DigitPrefix(SubSeq(r, IF esigned THEN 3 ELSE 2, Len(r)))
            ELSE << >>
  IN IF ed = << >> THEN [exp |-> 0, used |-> 0]
     ELSE [exp |-> IF r[2] = "-" THEN -DigitsValue(ed) ELSE DigitsValue(ed),
           used |-> 1 + (IF esigned THEN 1 ELSE 0) + Len(ed)]

\* The longest prefix of s that is a StrDecimalLiteral (sign, then Infinity
\* or digits, point, digits, exponent): whether there is one (ok), what
\* writes it, and the characters it takes
ScanDecimal(s) ==
  Only({Only({[ok |-> m.ok \/ m.inf, inf |-> m.inf, neg |-> m.neg,
               ip |-> m.ip, fp |-> m.fp, exp |-> e.exp,
               used |-> m.used + e.used] :
                e \in {IF m.ok THEN ScanExponent(SubSeq(s, m.used + 1, Len(s)))
                       ELSE [exp |-> 0, used |-> 0]}}) :
          m \in {ScanMantissa(s)}})

\* The number the digits ip.fp and the exponent exp write
DecimalValue(ip, fp, exp) ==
  LET digits == DigitsValue(ip \o fp)
      scale == exp - Len(fp)
  IN IF scale >= 0 THEN Whole(digits * Pow10(scale))
     ELSE Exact(Frac(digits, Pow10(-scale)))

\* The number a scanned literal writes
ScanValue(sc) ==
  IF sc.inf THEN (IF sc.neg THEN MinusInfinity ELSE Infinity)
  ELSE IF sc.neg THEN Neg(DecimalValue(sc.ip, sc.fp, sc.exp))
  ELSE DecimalValue(sc.ip, sc.fp, sc.exp)

\* parseFloat: leading white space skipped, trailing characters ignored
parseFloat(s) ==
  Only({IF sc.ok THEN ScanValue(sc) ELSE NaN :
          sc \in {ScanDecimal(TrimStart(s))}})

\* The base of a NonDecimalIntegerLiteral prefix 0x, 0o or 0b, 0 when t
\* does not begin with one
Radix(t) ==
  IF Len(t) < 2 \/ t[1] # "0" THEN 0
  ELSE CASE t[2] \in {"x", "X"} -> 16
         [] t[2] \in {"o", "O"} -> 8
         [] t[2] \in {"b", "B"} -> 2
         [] OTHER -> 0

HexDigits ==
  <<"0", "1", "2", "3", "4", "5", "6", "7", "8", "9", "a", "b", "c", "d", "e",
    "f">>

\* The value of a digit in a base up to 16, -1 when c is not a digit
HexVal(c) ==
  LET l == LowerChar(c)
  IN IF \E i \in 1..Len(HexDigits) : HexDigits[i] = l
     THEN (CHOOSE i \in 1..Len(HexDigits) : HexDigits[i] = l) - 1
     ELSE -1

RECURSIVE RadixValue(_, _)
RadixValue(ds, base) ==
  IF ds = << >> THEN 0
  ELSE base * RadixValue(SubSeq(ds, 1, Len(ds) - 1), base) + HexVal(ds[Len(ds)])

\* Whether t is a NonDecimalIntegerLiteral: a prefix and digits of its base
IsRadixLiteral(t) ==
  /\ Radix(t) # 0
  /\ Len(t) >= 3
  /\ \A i \in 3..Len(t) : HexVal(t[i]) >= 0 /\ HexVal(t[i]) < Radix(t)

\* ToNumber, the unary +: the whole trimmed string must be a numeric literal,
\* the empty string is 0, undefined is NaN
ToNumber(s) ==
  IF s = UNDEF THEN NaN
  ELSE Only({IF t = << >> THEN Zero
             ELSE IF IsRadixLiteral(t)
             THEN Whole(RadixValue(SubSeq(t, 3, Len(t)), Radix(t)))
             ELSE Only({IF sc.ok /\ sc.used = Len(t) THEN ScanValue(sc)
                        ELSE NaN : sc \in {ScanDecimal(t)}}) :
               t \in {Trim(s)}})

\* visualization.js:13 parseNumber
parseNumber(v) ==
  IF v = UNDEF \/ v = << >> THEN NaN ELSE ToNumber(ReplaceAll(v, ","))

\* visualization.js:277 parsePct
parsePct(s) ==
  IF s = UNDEF \/ s = << >> THEN NaN
  ELSE parseFloat(ReplaceFirst(ReplaceFirst(s, "%"), "+"))

\* ------------------------------------------------------------ renderMarketViz: the fold

\* Mutant of NormKey: the key keeps the identifier's surrounding white space
NormKeyNoTrim(id) == ToLowerCase(id)

\* visualization.js:305 and :339, the normalized key of an identifier
NormKey(id) == ToLowerCase(Trim(id))

\* visualization.js:306 and :340, the display label of an identifier
PrettyName(id) == Trim(id)

\* Index of the entry of the Map `groups` with this key, 0 when there is none
KeyIndex(groups, key) ==
  IF \E i \in 1..Len(groups) : groups[i].key = key
  THEN CHOOSE i \in 1..Len(groups) : groups[i].key = key
  ELSE 0

\* Map.prototype.set: an existing key keeps its place, a new one goes last
MapSet(groups, g) ==
  LET i == KeyIndex(groups, g.key)
  IN IF i = 0 THEN Append(groups, g) ELSE [groups EXCEPT ![i] = g]

\* visualization.js:308-317: the group of the key (a fresh one labelled by
\* this row when the Map has none), with the row's value added
Accumulate(groups, key, fresh, pct) ==
  LET i == KeyIndex(groups, key)
      group == IF i = 0 THEN fresh ELSE groups[i]
  IN MapSet(groups, [group EXCEPT !.sum = Add(@, pct), !.count = @ + 1])

\* The fold's state: the Map, and whether a row raised a TypeError
NoGroups == [groups |-> << >>, threw |-> FALSE]

\* visualization.js:301-318, one iteration of the loop over stocksRaw
StockStep(acc, d) ==
  LET pct == parsePct(d.chg_pct)
  IN IF acc.threw \/ IsNaN(pct) THEN acc
     ELSE IF d.name = UNDEF THEN [acc EXCEPT !.threw = TRUE]
     ELSE [acc EXCEPT !.groups =
             Accumulate(@, NormKey(d.name),
                        [key |-> NormKey(d.name), category |-> "Stock",
                         code |-> PrettyName(d.name), name |-> UNDEF,
                         sum |-> Zero, count |-> 0],
                        pct)]

\* visualization.js:335-354, one iteration of the loop over cryptoRaw
CryptoStep(acc, d) ==
  LET pct == parsePct(d.chg_24h)
  IN IF acc.threw \/ IsNaN(pct) THEN acc
     ELSE IF d.symbol = UNDEF THEN [acc EXCEPT !.threw = TRUE]
     ELSE [acc EXCEPT !.groups =
             Accumulate(@, NormKey(d.symbol),
                        [key |-> NormKey(d.symbol), category |-> "Crypto",
                         code |-> PrettyName(d.symbol), name |-> d.name,
                         sum |-> Zero, count |-> 0],
                        pct)]

RECURSIVE FoldStocks(_)
FoldStocks(rows) ==
  IF rows = << >> THEN NoGroups
  ELSE StockStep(FoldStocks(SubSeq(rows, 1, Len(rows) - 1)), rows[Len(rows)])

RECURSIVE FoldCrypto(_)
FoldCrypto(rows) ==
  IF rows = << >> THEN NoGroups
  ELSE CryptoStep(FoldCrypto(SubSeq(rows, 1, Len(rows) - 1)), rows[Len(rows)])

StockIdPrefix == <<"S", "t", "o", "c", "k", "|">>

CryptoIdPrefix == <<"C", "r", "y", "p", "t", "o", "|">>

\* visualization.js:320-330 and :356-367, a group as handed to the charts
Entry(d, prefix) ==
  [id |-> prefix \o d.code, category |-> d.category, code |-> d.code,
   name |-> d.name, avgPct |-> Div(d.sum, Whole(d.count)),
   absAvgPct |-> AbsNum(Div(d.sum, Whole(d.count))), count |-> d.count]

Entries(groups, prefix) == [i \in 1..Len(groups) |-> Entry(groups[i], prefix)]

\* ------------------------------------------------------------ renderMarketViz: the selection

\* visualization.js:378-379
POS_N == 10

NEG_N == 10

\* d3.descending(a.avgPct, b.avgPct) < 0
Descending(a, b) == FracLt(b.avgPct, a.avgPct)

\* d3.ascending(a.avgPct, b.avgPct) < 0
Ascending(a, b) == FracLt(a.avgPct, b.avgPct)

\* Array.prototype.sort is stable: x goes before the first element it must
\* strictly precede
RECURSIVE InsertDescending(_, _)
InsertDescending(s, x) ==
  IF s = << >> THEN <<x>>
  ELSE IF Descending(x, Head(s)) THEN <<x>> \o s
  ELSE <<Head(s)>> \o InsertDescending(Tail(s), x)

RECURSIVE SortDescending(_)
SortDescending(s) ==
  IF s = << >> THEN << >>
  ELSE InsertDescending(SortDescending(SubSeq(s, 1, Len(s) - 1)), s[Len(s)])

RECURSIVE InsertAscending(_, _)
InsertAscending(s, x) ==
  IF s = << >> THEN <<x>>
  ELSE IF Ascending(x, Head(s)) THEN <<x>> \o s
  ELSE <<Head(s)>> \o InsertAscending(Tail(s), x)

RECURSIVE SortAscending(_)
SortAscending(s) ==
  IF s = << >> THEN << >>
  ELSE InsertAscending(SortAscending(SubSeq(s, 1, Len(s) - 1)), s[Len(s)])

\* Array.prototype.slice(0, n)
Slice(s, n) == SubSeq(s, 1, IF Len(s) < n THEN Len(s) ELSE n)

\* Array.prototype.reverse
Reverse(s) == [i \in 1..Len(s) |-> s[Len(s) + 1 - i]]

\* visualization.js:394-396: a Map keyed by id keeps the place of the first
\* entry of an id and the value of the last
DedupById(s) ==
  LET firsts == SelectSeq([i \in 1..Len(s) |-> i],
                          LAMBDA i : \A j \in 1..(i - 1) : s[j].id # s[i].id)
      last(i) == CHOOSE j \in i..Len(s) :
                   /\ s[j].id = s[i].id
                   /\ \A k \in (j + 1)..Len(s) : s[k].id # s[i].id
  IN [n \in 1..Len(firsts) |-> s[last(firsts[n])]]

\* Mutant of Positives: the gains are cut to posN without being sorted
PositivesUnsorted(arr, posN) ==
  Slice(SelectSeq(arr, LAMBDA d : FracLt(Zero, d.avgPct)), posN)

\* Mutant of Negatives: the losses are not reversed
NegativesNotReversed(arr, negN) ==
  Slice(SortAscending(SelectSeq(arr, LAMBDA d : FracLt(d.avgPct, Zero))), negN)

\* visualization.js:382-385
Positives(arr, posN) ==
  Slice(SortDescending(SelectSeq(arr, LAMBDA d : FracLt(Zero, d.avgPct))), posN)

\* visualization.js:387-391
Negatives(arr, negN) ==
  Reverse(Slice(SortAscending(SelectSeq(arr, LAMBDA d : FracLt(d.avgPct, Zero))),
                negN))

\* visualization.js:381-397 with the two cut-offs as parameters
pickTopBottomN(arr, posN, negN) ==
  DedupById(Positives(arr, posN) \o Negatives(arr, negN))

\* visualization.js:381-397
pickTopBottom(arr) == pickTopBottomN(arr, POS_N, NEG_N)

\* ------------------------------------------------------------ the treemap

UnknownSector == <<"U", "n", "k", "n", "o", "w", "n">>

\* visualization.js:89-91 and :102: the Map keeps the last sector of a ticker
SectorOf(companyRows, symbol) ==
  LET hits == {i \in 1..Len(companyRows) : companyRows[i].ticker = symbol}
      last == CHOOSE i \in hits : \A j \in hits : j <= i
  IN IF hits = {} THEN UnknownSector
     ELSE OrElse(companyRows[last].sector, UnknownSector)

\* d3.rollup: the keys in the order of their first row
RollupKeys(keys) ==
  LET firsts == SelectSeq([i \in 1..Len(keys) |-> i],
                          LAMBDA i : \A j \in 1..(i - 1) : keys[j] # keys[i])
  IN [n \in 1..Len(firsts) |-> keys[firsts[n]]]

\* d3.rollup: the rows of one key, in input order
RollupRows(rows, keys, key) ==
  LET idx == SelectSeq([i \in 1..Len(rows) |-> i], LAMBDA i : keys[i] = key)
  IN [n \in 1..Len(idx) |-> rows[idx[n]]]

\* visualization.js:94-111
StockChildrenRaw(stockRows, companyRows) ==
  LET keys == [i \in 1..Len(stockRows) |->
                 SectorOf(companyRows, stockRows[i].symbol)]
      sectors == RollupKeys(keys)
      leaf(sector) ==
        LET rows == RollupRows(stockRows, keys, sector)
        IN [name |-> sector, symbol |-> UNDEF, type |-> "Stocks",
            rawValue |-> d3_sum([i \in 1..Len(rows) |->
                                   OrZero(ToNumber(rows[i].vol_))]),
            avgChange |-> d3_mean([i \in 1..Len(rows) |->
                                     OrZero(ToNumber(rows[i].chg_pct))]),
            count |-> Len(rows)]
  IN SelectSeq([n \in 1..Len(sectors) |-> leaf(sectors[n])],
               LAMBDA d : FracLt(Zero, d.rawValue))

\* visualization.js:121-144
CryptoChildrenRaw(cryptoRows) ==
  LET keys == [i \in 1..Len(cryptoRows) |-> cryptoRows[i].symbol]
      symbols == RollupKeys(keys)
      leaf(symbol) ==
        LET rows == RollupRows(cryptoRows, keys, symbol)
        IN [name |-> OrElse(rows[1].name, symbol), symbol |-> symbol,
            type |-> "Crypto",
            rawValue |-> d3_sum([i \in 1..Len(rows) |->
                                   parseNumber(rows[i].market_cap)]),
            avgChange |-> d3_mean([i \in 1..Len(rows) |->
                                     OrZero(ToNumber(rows[i].chg_7d))]),
            count |-> 1]
  IN SelectSeq([n \in 1..Len(symbols) |-> leaf(symbols[n])],
               LAMBDA d : FracLt(Zero, d.rawValue))

\* visualization.js:113 and :146: d3.sum(...) || 1
PartitionTotal(raw) ==
  LET total == d3_sum([i \in 1..Len(raw) |-> raw[i].rawValue])
  IN IF IsNaN(total) \/ total = Zero THEN Whole(1) ELSE total

\* visualization.js:116-119 and :149-152
Normalized(raw) ==
  [i \in 1..Len(raw) |->
     [name |-> raw[i].name, symbol |-> raw[i].symbol, type |-> raw[i].type,
      rawValue |-> raw[i].rawValue, avgChange |-> raw[i].avgChange,
      count |-> raw[i].count,
      value |-> Div(raw[i].rawValue, PartitionTotal(raw))]]

\* visualization.js:156-162, the two partitions of the root "Assets"
TreeData(stockRows, cryptoRows, companyRows) ==
  [built |-> TRUE,
   Stocks |-> Normalized(StockChildrenRaw(stockRows, companyRows)),
   Crypto |-> Normalized(CryptoChildrenRaw(cryptoRows))]

NoTree == [built |-> FALSE, Stocks |-> << >>, Crypto |-> << >>]

\* ------------------------------------------------------------ inputs

\* All sequences over kinds of length at most n
SeqsUpTo(kinds, n) == UNION {[1..k -> kinds] : k \in 0..n}

\* The rows of ../stocks.csv: a name with a value that parses, does not
\* parse, is infinite, empty or missing, and the name written otherwise, a
\* blank name and no name with a value that parses
StockRowKinds ==
  [name : {<<"A", "A", "A">>},
   chg_pct : {<<"+", "2", ".", "0", "0", "%">>, <<"-", "1", ".", "0", "0", "%">>,
              <<"x">>, InfinityLiteral, << >>, UNDEF}]
  \cup [name : {<<"a", "a", "a">>, <<" ", "\t">>, UNDEF},
        chg_pct : {<<"-", "1", ".", "0", "0", "%">>}]

\* The rows of ../cryptocurrency.csv
CryptoRowKinds ==
  [symbol : {<<"Z">>},
   chg_24h : {<<"1">>, <<"-", "2", "%">>, <<"-">> \o InfinityLiteral, << >>,
              UNDEF},
   name : {<<"N">>}]
  \cup [symbol : {<<"\n", "Z", "\r">>, UNDEF}, chg_24h : {<<"1">>},
        name : {<<"N">>}]

WideLetters == <<"a", "b", "c", "d">>

\* The name of the i-th asset of a wide file: distinct keys for i = 1..16
WideName(i) ==
  <<WideLetters[((i - 1) \div 4) + 1], WideLetters[((i - 1) % 4) + 1]>>

\* One or two places among a..b: one place, or the first and another
WidePlaces(a, b) == {{k} : k \in a..b} \cup {{a, k} : k \in a..b}

\* Wide files hold MaxWide assets, one row each. A wide stocks.csv has
\* MaxWide - 1 gains, of 2 % in one or two places and of 1 % in the others,
\* and then one loss
WideStockFiles ==
  {[i \in 1..MaxWide |->
      [name |-> WideName(i),
       chg_pct |-> IF i = MaxWide THEN <<"-", "3">>
                   ELSE IF i \in p THEN <<"+", "2", "%">>
                   ELSE <<"1">>]] :
     p \in WidePlaces(1, MaxWide - 1)}

\* A wide cryptocurrency.csv has one gain and then MaxWide - 1 losses, of
\* 2 % in one or two places and of 1 % in the others
WideCryptoFiles ==
  {[i \in 1..MaxWide |->
      [symbol |-> WideName(i),
       chg_24h |-> IF i = 1 THEN <<"+", "3", "%">>
                   ELSE IF i \in p THEN <<"-", "2", "%">>
                   ELSE <<"-", "1">>,
       name |-> <<"N">>]] :
     p \in WidePlaces(2, MaxWide)}

\* The rows of stocks_cleaned.csv
TreeStockKinds ==
  [symbol : {<<"X">>},
   vol_ : {<<"3", "0", "0">>, <<"-", "5">>, <<"a", "b", "c">>, InfinityLiteral,
           << >>, UNDEF},
   chg_pct : {<<"1">>}]
  \cup {[symbol |-> <<"Y">>, vol_ |-> <<"1", "0", "0">>, chg_pct |-> <<"x">>]}

\* The rows of crypto_cleaned.csv
TreeCryptoKinds ==
  [name : {<<"N">>}, symbol : {<<"c">>},
   market_cap : {<<"1", ",", "3", "0", "0">>, <<"0">>, <<"n", "/", "a">>,
                 InfinityLiteral, UNDEF},
   chg_7d : {<<"2">>}]
  \cup {[name |-> << >>, symbol |-> <<"d">>, market_cap |-> <<"1", "0", "0">>,
         chg_7d |-> <<"x">>]}

Company(t, sec) == [ticker |-> t, sector |-> sec]

\* The files companies_cleaned.csv can be
CompanyFiles ==
  {<< >>,
   <<Company(<<"X">>, <<"T">>), Company(<<"Y">>, << >>)>>,
   <<Company(<<"X">>, <<"T">>), Company(<<"X">>, <<"F">>)>>}

\* The files a d3.csv call can deliver when the other files of the page
\* that are loaded hold `used` rows: the files of the page hold MaxRows rows
\* together, or one of them is wide and the others are empty
FilesOver(kinds, wide, used) ==
  IF used = 0 THEN SeqsUpTo(kinds, MaxRows) \cup wide
  ELSE IF used <= MaxRows THEN SeqsUpTo(kinds, MaxRows - used)
  ELSE {<< >>}

\* ------------------------------------------------------------ state

VARIABLES
  stocksCsv,    \* renderMarketViz: the promise of d3.csv("../stocks.csv")
  cryptoCsv,    \* renderMarketViz: the promise of d3.csv("../cryptocurrency.csv")
  mPc,          \* renderMarketViz: where the async function is
  stocksRaw, cryptoRaw,
  stockGroups, cryptoGroups,
  stocks, cryptos,
  stocksSel, cryptosSel,
  message,      \* renderMarketViz: the red message appended to the wrapper
  charts,       \* renderMarketViz: whether the two bar panels were drawn
  treeCsv,      \* treemap: the three promises given to Promise.all
  tPc,          \* treemap: where the DOMContentLoaded listener's chain is
  treeData,     \* treemap: the hierarchy handed to d3.hierarchy
  consoleError  \* treemap: whether the script logged an error

marketVars ==
  <<stocksCsv, cryptoCsv, mPc, stocksRaw, cryptoRaw, stockGroups, cryptoGroups,
    stocks, cryptos, stocksSel, cryptosSel, message, charts>>

treeVars == <<treeCsv, tPc, treeData, consoleError>>

vars == <<marketVars, treeVars>>

Pending == [state |-> "pending", rows |-> << >>]

Fulfilled(rows) == [state |-> "fulfilled", rows |-> rows]

Rejected == [state |-> "rejected", rows |-> << >>]

TreeFileNames == {"stocks", "crypto", "companies"}

\* The rows of the files loaded so far, the companies file apart
LoadedRows ==
  Len(stocksCsv.rows) + Len(cryptoCsv.rows) + Len(treeCsv["stocks"].rows)
  + Len(treeCsv["crypto"].rows)

\* The page has loaded the module: the treemap listener is registered, and
\* renderMarketViz is exported and not yet called
Init ==
  /\ stocksCsv = Pending
  /\ cryptoCsv = Pending
  /\ mPc = "idle"
  /\ stocksRaw = << >>
  /\ cryptoRaw = << >>
  /\ stockGroups = << >>
  /\ cryptoGroups = << >>
  /\ stocks = << >>
  /\ cryptos = << >>
  /\ stocksSel = << >>
  /\ cryptosSel = << >>
  /\ message = "none"
  /\ charts = FALSE
  /\ treeCsv = [f \in TreeFileNames |-> Pending]
  /\ tPc = "idle"
  /\ treeData = NoTree
  /\ consoleError = FALSE

\* ------------------------------------------------------------ renderMarketViz

\* Mutant of AllFulfilled: the function goes on when one promise is fulfilled
AnyFulfilled(promises) == \E p \in promises : p.state = "fulfilled"

\* Promise.all is fulfilled when every promise is
AllFulfilled(promises) == \A p \in promises : p.state = "fulfilled"

\* Promise.all is rejected as soon as one promise is
SomeRejected(promises) == \E p \in promises : p.state = "rejected"

\* visualization.js:235-288: the page calls renderMarketViz, which runs to
\* the await of its two d3.csv promises
RenderMarketVizCalled ==
  /\ mPc = "idle"
  /\ mPc' = "loading"
  /\ UNCHANGED <<stocksCsv, cryptoCsv, stocksRaw, cryptoRaw, stockGroups,
                 cryptoGroups, stocks, cryptos, stocksSel, cryptosSel, message,
                 charts, treeVars>>

\* d3.csv("../stocks.csv") resolves with the rows of the file
StocksCsvLoaded ==
  /\ mPc # "idle"
  /\ stocksCsv.state = "pending"
  /\ \E rows \in FilesOver(StockRowKinds, WideStockFiles, LoadedRows) :
       stocksCsv' = Fulfilled(rows)
  /\ UNCHANGED <<cryptoCsv, mPc, stocksRaw, cryptoRaw, stockGroups,
                 cryptoGroups, stocks, cryptos, stocksSel, cryptosSel, message,
                 charts, treeVars>>

StocksCsvFailed ==
  /\ mPc # "idle"
  /\ stocksCsv.state = "pending"
  /\ stocksCsv' = Rejected
  /\ UNCHANGED <<cryptoCsv, mPc, stocksRaw, cryptoRaw, stockGroups,
                 cryptoGroups, stocks, cryptos, stocksSel, cryptosSel, message,
                 charts, treeVars>>

CryptoCsvLoaded ==
  /\ mPc # "idle"
  /\ cryptoCsv.state = "pending"
  /\ \E rows \in FilesOver(CryptoRowKinds, WideCryptoFiles, LoadedRows) :
       cryptoCsv' = Fulfilled(rows)
  /\ UNCHANGED <<stocksCsv, mPc, stocksRaw, cryptoRaw, stockGroups,
                 cryptoGroups, stocks, cryptos, stocksSel, cryptosSel, message,
                 charts, treeVars>>

CryptoCsvFailed ==
  /\ mPc # "idle"
  /\ cryptoCsv.state = "pending"
  /\ cryptoCsv' = Rejected
  /\ UNCHANGED <<stocksCsv, mPc, stocksRaw, cryptoRaw, stockGroups,
                 cryptoGroups, stocks, cryptos, stocksSel, cryptosSel, message,
                 charts, treeVars>>

\* visualization.js:289-296: the await threw
LoadError ==
  /\ mPc = "loading"
  /\ SomeRejected({stocksCsv, cryptoCsv})
  /\ mPc' = "error"
  /\ message' = "Error loading CSV files"
  /\ UNCHANGED <<stocksCsv, cryptoCsv, stocksRaw, cryptoRaw,
                 stockGroups, cryptoGroups, stocks, cryptos, stocksSel,
                 cryptosSel, charts, treeVars>>

\* visualization.js:285-623: the await returned; the rest of the function
\* runs to its end without suspending
RenderAfterLoad ==
  /\ mPc = "loading"
  /\ AllFulfilled({stocksCsv, cryptoCsv})
  /\ LET sFold == FoldStocks(stocksCsv.rows)
         cFold == FoldCrypto(cryptoCsv.rows)
         ss == Entries(sFold.groups, StockIdPrefix)
         cs == Entries(cFold.groups, CryptoIdPrefix)
     IN /\ stocksRaw' = stocksCsv.rows
        /\ cryptoRaw' = cryptoCsv.rows
        /\ IF sFold.threw
           THEN \* TypeError in the first loop: the function's promise rejects
                \* and the Map holds the groups of the rows before it
                /\ mPc' = "threw"
                /\ stockGroups' = sFold.groups
                /\ UNCHANGED <<cryptoGroups, stocks, cryptos, stocksSel,
                               cryptosSel, message, charts>>
           ELSE IF cFold.threw
           THEN \* TypeError in the second loop
                /\ mPc' = "threw"
                /\ stockGroups' = sFold.groups
                /\ stocks' = ss
                /\ cryptoGroups' = cFold.groups
                /\ UNCHANGED <<cryptos, stocksSel, cryptosSel, message,
                               charts>>
           ELSE /\ stockGroups' = sFold.groups
                /\ cryptoGroups' = cFold.groups
                /\ stocks' = ss
                /\ cryptos' = cs
                /\ IF Len(ss) = 0 /\ Len(cs) = 0
                   THEN /\ mPc' = "novalid"
                        /\ message' = "No valid % change values parsed"
                        /\ UNCHANGED <<stocksSel, cryptosSel, charts>>
                   ELSE /\ mPc' = "done"
                        /\ stocksSel' = pickTopBottom(ss)
                        /\ cryptosSel' = pickTopBottom(cs)
                        /\ charts' = TRUE
                        /\ UNCHANGED message
  /\ UNCHANGED <<stocksCsv, cryptoCsv, treeVars>>

\* ------------------------------------------------------------ the treemap script

\* visualization.js:3-81: DOMContentLoaded fires. Without an element
\* #asset-treemap the listener logs an error and returns; with one it calls
\* d3.csv three times and Promise.all
DomContentLoaded ==
  /\ tPc = "idle"
  /\ \E root \in BOOLEAN :
       IF root THEN tPc' = "loading" /\ UNCHANGED consoleError
       ELSE tPc' = "noroot" /\ consoleError' = TRUE
  /\ UNCHANGED <<marketVars, treeCsv, treeData>>

\* One of the three d3.csv promises resolves with the rows of its file
TreeCsvLoaded(f) ==
  /\ tPc \notin {"idle", "noroot"}
  /\ treeCsv[f].state = "pending"
  /\ \E rows \in CASE f = "stocks" -> FilesOver(TreeStockKinds, {}, LoadedRows)
                   [] f = "crypto" -> FilesOver(TreeCryptoKinds, {}, LoadedRows)
                   [] f = "companies" -> CompanyFiles :
       treeCsv' = [treeCsv EXCEPT ![f] = Fulfilled(rows)]
  /\ UNCHANGED <<marketVars, tPc, treeData, consoleError>>

TreeCsvFailed(f) ==
  /\ tPc \notin {"idle", "noroot"}
  /\ treeCsv[f].state = "pending"
  /\ treeCsv' = [treeCsv EXCEPT ![f] = Rejected]
  /\ UNCHANGED <<marketVars, tPc, treeData, consoleError>>

\* visualization.js:81-227: the then callback
TreemapThen ==
  /\ tPc = "loading"
  /\ AllFulfilled({treeCsv[f] : f \in TreeFileNames})
  /\ tPc' = "rendered"
  /\ treeData' = TreeData(treeCsv["stocks"].rows, treeCsv["crypto"].rows,
                          treeCsv["companies"].rows)
  /\ UNCHANGED <<marketVars, treeCsv, consoleError>>

\* visualization.js:229-231: the catch callback
TreemapCatch ==
  /\ tPc = "loading"
  /\ SomeRejected({treeCsv[f] : f \in TreeFileNames})
  /\ tPc' = "error"
  /\ consoleError' = TRUE
  /\ UNCHANGED <<marketVars, treeCsv, treeData>>

\* The two scripts of the page run together: every step of one can come
\* between two steps of the other
Next ==
  \/ RenderMarketVizCalled
  \/ StocksCsvLoaded
  \/ StocksCsvFailed
  \/ CryptoCsvLoaded
  \/ CryptoCsvFailed
  \/ LoadError
  \/ RenderAfterLoad
  \/ DomContentLoaded
  \/ \E f \in TreeFileNames : TreeCsvLoaded(f)
  \/ \E f \in TreeFileNames : TreeCsvFailed(f)
  \/ TreemapThen
  \/ TreemapCatch

Spec == Init /\ [][Next]_vars

\* ------------------------------------------------------------ properties: vocabulary

Range(s) == {s[i] : i \in 1..Len(s)}

Min(a, b) == IF a < b THEN a ELSE b

RECURSIVE SumOver(_, _)
\* The sum of the numbers f[i] over the finite set of indices I
SumOver(f, I) ==
  IF I = {} THEN Zero
  ELSE LET i == CHOOSE x \in I : TRUE IN Add(f[i], SumOver(f, I \ {i}))

\* s without its k-th element
Remove(s, k) == SubSeq(s, 1, k - 1) \o SubSeq(s, k + 1, Len(s))

\* Two identifiers name the same asset: equal once trimmed, letter case aside
SameAsset(a, b) ==
  LET x == Trim(a)
      y == Trim(b)
  IN /\ a # UNDEF
     /\ b # UNDEF
     /\ Len(x) = Len(y)
     /\ \A k \in 1..Len(x) : LowerChar(x[k]) = LowerChar(y[k])

\* An identifier that is missing or empty once trimmed
BadId(id) == id = UNDEF \/ Trim(id) = << >>

\* A value field v, read by the code as the number x, that is missing,
\* empty or does not parse to a finite number
BadValue(v, x) == v = UNDEF \/ v = << >> \/ ~IsFinite(x)

StockPct == [i \in 1..Len(stocksRaw) |-> parsePct(stocksRaw[i].chg_pct)]

CryptoPct == [i \in 1..Len(cryptoRaw) |-> parsePct(cryptoRaw[i].chg_24h)]

\* The valid rows of stocksRaw: an identifier that is not empty once trimmed
\* and a value that parses to a finite number
ValidStock == {i \in 1..Len(stocksRaw) :
                 /\ ~BadId(stocksRaw[i].name)
                 /\ ~BadValue(stocksRaw[i].chg_pct, StockPct[i])}

ValidCrypto == {i \in 1..Len(cryptoRaw) :
                  /\ ~BadId(cryptoRaw[i].symbol)
                  /\ ~BadValue(cryptoRaw[i].chg_24h, CryptoPct[i])}

\* The valid rows of the asset labelled `code`
StockRowsOf(code) == {i \in ValidStock : SameAsset(stocksRaw[i].name, code)}

CryptoRowsOf(code) == {i \in ValidCrypto : SameAsset(cryptoRaw[i].symbol, code)}

IsPositive(d) == FracLt(Zero, d.avgPct)

IsNegative(d) == FracLt(d.avgPct, Zero)

NumPositive(arr) == Cardinality({i \in 1..Len(arr) : IsPositive(arr[i])})

NumNegative(arr) == Cardinality({i \in 1..Len(arr) : IsNegative(arr[i])})

\* renderMarketViz ran to its end and drew the charts
Done == mPc = "done"

\* renderMarketViz went past the await
Folded == mPc \in {"done", "novalid", "threw"}

TreeStockRows == treeCsv["stocks"].rows

TreeCryptoRows == treeCsv["crypto"].rows

TreeCompanyRows == treeCsv["companies"].rows

\* The rows of stocks_cleaned.csv of one sector
SectorRows(sector) ==
  {i \in 1..Len(TreeStockRows) :
     SectorOf(TreeCompanyRows, TreeStockRows[i].symbol) = sector}

\* The rows of crypto_cleaned.csv of one symbol
SymbolRows(symbol) ==
  {i \in 1..Len(TreeCryptoRows) : TreeCryptoRows[i].symbol = symbol}

StockVol == [i \in 1..Len(TreeStockRows) |-> ToNumber(TreeStockRows[i].vol_)]

CryptoCap ==
  [i \in 1..Len(TreeCryptoRows) |-> parseNumber(TreeCryptoRows[i].market_cap)]

\* The valid rows of the two files of the treemap
ValidTreeStock == {i \in 1..Len(TreeStockRows) :
                     ~BadValue(TreeStockRows[i].vol_, StockVol[i])}

ValidTreeCrypto == {i \in 1..Len(TreeCryptoRows) :
                      ~BadValue(TreeCryptoRows[i].market_cap, CryptoCap[i])}

\* ------------------------------------------------------------ properties: pickTopBottom

\* The place of the entry d in the sequence sel
Pos(sel, d) == CHOOSE n \in 1..Len(sel) : sel[n] = d

TopBottomSound(arr, sel) ==
  /\ Len(sel) <= POS_N + NEG_N
  /\ Range(sel) \subseteq Range(arr)
  /\ \A d \in Range(sel) : d.avgPct # Zero
  /\ \A d \in Range(sel) : \A u \in Range(arr) \ Range(sel) :
       /\ IsPositive(d) /\ IsPositive(u) => ~FracLt(d.avgPct, u.avgPct)
       /\ IsNegative(d) /\ IsNegative(u) => ~FracLt(u.avgPct, d.avgPct)
  /\ (\A u \in Range(arr) : u.avgPct = Zero) => sel = << >>

\* C1: pickTopBottom returns at most POS_N + NEG_N entries, none with a zero
\* average; every returned gain is at least every gain left out and every
\* returned loss at most every loss left out; when every average is zero the
\* selection is empty.
C1_TopBottomSound ==
  Done => /\ TopBottomSound(stocks, stocksSel)
          /\ TopBottomSound(cryptos, cryptosSel)

\* More gains than POS_N, and a gain left out that is smaller than one kept
C1_Witness ==
  /\ Done
  /\ NumPositive(stocks) > POS_N
  /\ NumPositive(stocksSel) = POS_N
  /\ \E u \in Range(stocks) \ Range(stocksSel) : \E d \in Range(stocksSel) :
       IsPositive(u) /\ FracLt(u.avgPct, d.avgPct)

Mean(v) == [id |-> <<v>>, avgPct |-> Whole(v)]

ScenarioC == <<Mean(5), Mean(3), Mean(1), Mean(-2), Mean(-7)>>

DisplayOrder(arr, sel) ==
  LET k == NumPositive(sel)
  IN /\ \A i \in 1..Len(sel) :
          IF i <= k THEN IsPositive(sel[i]) ELSE IsNegative(sel[i])
     /\ \A i, j \in 1..Len(sel) :
          i < j => ~FracLt(sel[i].avgPct, sel[j].avgPct)
     /\ NumNegative(arr) > 0 =>
          /\ Len(sel) > 0
          /\ \A u \in Range(arr) : ~FracLt(u.avgPct, sel[Len(sel)].avgPct)

\* C2: the selection lists the gains first, largest first, then the losses,
\* with the largest loss of the whole input as the last element; with
\* cut-offs 2 and 1 the averages 5, 3, 1, -2, -7 give 5, 3, -7.
C2_DisplayOrder ==
  /\ Done => /\ DisplayOrder(stocks, stocksSel)
             /\ DisplayOrder(cryptos, cryptosSel)
  /\ pickTopBottomN(ScenarioC, 2, 1) = <<Mean(5), Mean(3), Mean(-7)>>

\* A gain first, then NEG_N losses cut from more, of different sizes
C2_Witness ==
  /\ Done
  /\ NumNegative(cryptos) > NEG_N
  /\ Len(cryptosSel) = NEG_N + 1
  /\ IsPositive(cryptosSel[1])
  /\ IsNegative(cryptosSel[2])
  /\ FracLt(cryptosSel[NEG_N + 1].avgPct, cryptosSel[2].avgPct)

SelectionSize(arr, sel) ==
  /\ Len(sel) = Min(POS_N, NumPositive(arr)) + Min(NEG_N, NumNegative(arr))
  /\ \A i, j \in 1..Len(arr) : i # j => arr[i].id # arr[j].id
  /\ arr = << >> => sel = << >>

\* C9: the selection holds min(POS_N, gains) + min(NEG_N, losses) entries,
\* an empty input gives an empty selection, and the ids of the groups the
\* fold produces are pairwise distinct, so the Map keyed by id drops nothing.
C9_SelectionSize ==
  /\ Done => /\ SelectionSize(stocks, stocksSel)
             /\ SelectionSize(cryptos, cryptosSel)
  /\ pickTopBottom(<< >>) = << >>

\* Fewer gains than the cut-off, all returned: one gain, folded from two rows
\* that write one symbol in two ways, beside an empty stock selection
C9_Witness ==
  /\ Done
  /\ NumPositive(cryptos) = 1
  /\ NumNegative(cryptos) = 0
  /\ Len(cryptosSel) = 1
  /\ cryptosSel[1].count = 2
  /\ stocks = << >>
  /\ stocksSel = << >>
  /\ \E i, j \in ValidCrypto :
       /\ cryptoRaw[i].symbol # cryptoRaw[j].symbol
       /\ SameAsset(cryptoRaw[i].symbol, cryptoRaw[j].symbol)

\* The first of a set of rows, 0 when there is none
FirstOf(R) == IF R = {} THEN 0 ELSE CHOOSE i \in R : \A j \in R : i <= j

\* For each group, the first valid row of its asset
FirstStockRow ==
  [i \in 1..Len(stocks) |-> FirstOf(StockRowsOf(stocks[i].code))]

FirstCryptoRow ==
  [i \in 1..Len(cryptos) |-> FirstOf(CryptoRowsOf(cryptos[i].code))]

\* Every group has valid rows, is labelled by the trimmed identifier of the
\* first of them, and the groups are in the order of these first rows
LabelledByFirstRow(arr, first, id(_)) ==
  \A i \in 1..Len(arr) :
    /\ first[i] # 0
    /\ arr[i].code = Trim(id(first[i]))
    /\ i < Len(arr) => first[i] < first[i + 1]

TiesByInputOrder(arr, sel) ==
  \A i, j \in 1..Len(arr) :
    (/\ i < j
     /\ IsPositive(arr[i])
     /\ arr[i].avgPct = arr[j].avgPct
     /\ arr[j] \in Range(sel))
    => /\ arr[i] \in Range(sel)
       /\ Pos(sel, arr[i]) < Pos(sel, arr[j])

\* C10: of two gains with equal averages the one whose group was created
\* first (whose key appears first in the rows) is ranked first and survives
\* the cut-off first; a group's label is the trimmed identifier of the first
\* valid row of its key.
C10_TiesAndLabels ==
  Done =>
    /\ TiesByInputOrder(stocks, stocksSel)
    /\ TiesByInputOrder(cryptos, cryptosSel)
    /\ LabelledByFirstRow(stocks, FirstStockRow, LAMBDA r : stocksRaw[r].name)
    /\ LabelledByFirstRow(cryptos, FirstCryptoRow,
                          LAMBDA r : cryptoRaw[r].symbol)

\* ------------------------------------------------------------ properties: the fold

\* The group g and its entry e in the array handed to the charts are the
\* aggregate of the rows R, whose values are pct
AggregateOfRows(g, e, R, pct) ==
  /\ g.count >= 1
  /\ g.count = Cardinality(R)
  /\ g.sum = SumOver(pct, R)
  /\ e.count = g.count
  /\ e.code = g.code
  /\ e.avgPct = Div(g.sum, Whole(g.count))

\* Every aggregate handed to the bar charts is that of the valid rows of its
\* key
MarketAggregates ==
  Done =>
    /\ Len(stocks) = Len(stockGroups)
    /\ \A i \in 1..Len(stocks) :
         AggregateOfRows(stockGroups[i], stocks[i],
                         StockRowsOf(stockGroups[i].code), StockPct)
    /\ Len(cryptos) = Len(cryptoGroups)
    /\ \A i \in 1..Len(cryptos) :
         AggregateOfRows(cryptoGroups[i], cryptos[i],
                         CryptoRowsOf(cryptoGroups[i].code), CryptoPct)

\* Every leaf of the treemap is the aggregate of the valid rows of its key:
\* its count is their number and its raw value their total
LeafAggregates ==
  /\ \A d \in Range(treeData.Stocks) :
       LET R == SectorRows(d.name) \cap ValidTreeStock
       IN /\ d.count >= 1
          /\ d.count = Cardinality(R)
          /\ d.rawValue = SumOver(StockVol, R)
  /\ \A d \in Range(treeData.Crypto) :
       LET R == SymbolRows(d.symbol) \cap ValidTreeCrypto
       IN /\ d.count >= 1
          /\ d.count = Cardinality(R)
          /\ d.rawValue = SumOver(CryptoCap, R)

\* C3: every aggregate handed to rendering, in the bar charts and in the
\* treemap, has a count of at least 1 that is the number of valid rows of its
\* key, a sum that is the total of their values and, in the bar charts, an
\* average that is sum / count.
C3_AggregatesMatchRows ==
  /\ MarketAggregates
  /\ LeafAggregates

ScenarioA ==
  <<[name |-> <<"A", "A", "A">>, chg_pct |-> <<"+", "2", ".", "0", "0", "%">>],
    [name |-> <<"a", "a", "a">>, chg_pct |-> <<"-", "1", ".", "0", "0", "%">>]>>

\* The groups are the classes of the valid rows under SameAsset
GroupsAreAssets(groups, valid, id(_)) ==
  LET class(i) == {j \in valid : SameAsset(id(i), id(j))}
  IN /\ Len(groups) = Cardinality({class(i) : i \in valid})
     /\ \A i \in valid : \E g \in 1..Len(groups) :
          /\ SameAsset(groups[g].code, id(i))
          /\ groups[g].count = Cardinality(class(i))

\* C4: the valid rows are folded by asset: two rows go to one group exactly
\* when their identifiers are equal once trimmed and case-folded, so there
\* are as many groups as distinct normalized keys among the valid rows; "AAA"
\* +2.00% and "aaa" -1.00% give one group aaa with count 2, sum 1.0 and
\* average 0.5.
C4_GroupsAreAssets ==
  /\ Folded =>
       /\ GroupsAreAssets(stockGroups, ValidStock, LAMBDA i : stocksRaw[i].name)
       /\ GroupsAreAssets(cryptoGroups, ValidCrypto, LAMBDA i : cryptoRaw[i].symbol)
  /\ LET r == FoldStocks(ScenarioA)
     IN /\ ~r.threw
        /\ Len(r.groups) = 1
        /\ r.groups[1].key = <<"a", "a", "a">>
        /\ r.groups[1].count = 2
        /\ r.groups[1].sum = Whole(1)
        /\ Entry(r.groups[1], StockIdPrefix).avgPct = Frac(1, 2)

\* C5: a row whose identifier is missing or empty once trimmed is discarded:
\* the run does not fail and the groups are those of the other rows.
C5_BadIdDiscarded ==
  Folded =>
    /\ mPc # "threw"
    /\ stockGroups
         = FoldStocks(SelectSeq(stocksRaw, LAMBDA d : ~BadId(d.name))).groups
    /\ cryptoGroups
         = FoldCrypto(SelectSeq(cryptoRaw, LAMBDA d : ~BadId(d.symbol))).groups

\* What renderMarketViz makes of the rows of its two files: the two Maps,
\* the second fold not being run when the first throws
MarketOutcome(sRows, cRows) ==
  LET sFold == FoldStocks(sRows)
      cFold == IF sFold.threw THEN NoGroups ELSE FoldCrypto(cRows)
  IN [stockGroups |-> sFold.groups, cryptoGroups |-> cFold.groups,
      threw |-> sFold.threw \/ cFold.threw]

\* What this run made of them
Outcome ==
  [stockGroups |-> stockGroups, cryptoGroups |-> cryptoGroups,
   threw |-> mPc = "threw"]

\* The stock leaves of the treemap without row k of stocks_cleaned.csv
LeavesWithout(k) ==
  Normalized(StockChildrenRaw(Remove(TreeStockRows, k), TreeCompanyRows))

\* C6: a row whose value field is missing, empty or does not parse to a
\* finite number is skipped: without the row the two folds of renderMarketViz
\* give the same groups (sum, count, label, and so average) and fail or not
\* alike, and the sector rollup of the treemap gives the same leaves.
C6_BadValueSkipped ==
  /\ Folded =>
       /\ \A k \in 1..Len(stocksRaw) :
            BadValue(stocksRaw[k].chg_pct, StockPct[k]) =>
              Outcome = MarketOutcome(Remove(stocksRaw, k), cryptoRaw)
       /\ \A k \in 1..Len(cryptoRaw) :
            BadValue(cryptoRaw[k].chg_24h, CryptoPct[k]) =>
              Outcome = MarketOutcome(stocksRaw, Remove(cryptoRaw, k))
  /\ tPc = "rendered" =>
       \A k \in 1..Len(TreeStockRows) :
         BadValue(TreeStockRows[k].vol_, StockVol[k]) =>
           treeData.Stocks = LeavesWithout(k)

\* ------------------------------------------------------------ properties: the treemap

One == Whole(1)

\* The sum of two finite quotients as fractions, NaN otherwise. The code
\* never adds the shares; the doubles it stores are the nearest to these
\* fractions, so that their sum is 1 up to the rounding of each division.
FracAdd(x, y) ==
  IF IsFinite(x) /\ IsFinite(y)
  THEN Frac(x.num * y.den + y.num * x.den, x.den * y.den)
  ELSE NaN

RECURSIVE FracSum(_)
FracSum(s) == IF s = << >> THEN Zero ELSE FracAdd(Head(s), FracSum(Tail(s)))

PartitionNormalized(leaves) ==
  LET raw == [i \in 1..Len(leaves) |-> leaves[i].rawValue]
  IN /\ \A i \in 1..Len(leaves) :
          /\ FracLt(Zero, leaves[i].rawValue)
          /\ leaves[i].value = Div(leaves[i].rawValue, SumOver(raw, 1..Len(raw)))
          /\ leaves[i].value = Zero \/ FracLt(Zero, leaves[i].value)
     /\ leaves # << >> =>
          FracSum([i \in 1..Len(leaves) |-> leaves[i].value]) = One

\* A group has a leaf exactly when its raw value is positive, and the leaf
\* carries that raw value
PositiveGroupsOnly ==
  /\ \A i \in 1..Len(TreeStockRows) :
       LET sector == SectorOf(TreeCompanyRows, TreeStockRows[i].symbol)
           total == SumOver([k \in 1..Len(TreeStockRows) |-> OrZero(StockVol[k])],
                            SectorRows(sector))
       IN IF FracLt(Zero, total)
          THEN \E d \in Range(treeData.Stocks) :
                 d.name = sector /\ d.rawValue = total
          ELSE \A d \in Range(treeData.Stocks) : d.name # sector
  /\ \A i \in 1..Len(TreeCryptoRows) :
       LET symbol == TreeCryptoRows[i].symbol
           total == SumOver([k \in 1..Len(TreeCryptoRows) |-> OrZero(CryptoCap[k])],
                            SymbolRows(symbol))
       IN IF FracLt(Zero, total)
          THEN \E d \in Range(treeData.Crypto) :
                 d.symbol = symbol /\ d.rawValue = total
          ELSE \A d \in Range(treeData.Crypto) : d.symbol # symbol

RawLeaf(n, v) ==
  [name |-> <<n>>, symbol |-> UNDEF, type |-> "Stocks", rawValue |-> v,
   avgChange |-> Zero, count |-> 1]

\* C7: each partition of the hierarchy is normalized on its own: every leaf
\* has a positive raw value and the share rawValue / total of its partition,
\* which is at least 0; groups without a positive raw value have no leaf, the
\* shares of a partition with leaves add up to 1 (300 and 100 give 0.75 and
\* 0.25), and a total of 0 is replaced by the divisor 1.
C7_PartitionsNormalized ==
  /\ tPc = "rendered" =>
       /\ treeData.built
       /\ PartitionNormalized(treeData.Stocks)
       /\ PartitionNormalized(treeData.Crypto)
       /\ PositiveGroupsOnly
  /\ LET n == Normalized(<<RawLeaf("p", Whole(300)), RawLeaf("q", Whole(100))>>)
     IN n[1].value = Frac(3, 4) /\ n[2].value = Frac(1, 4)
  /\ PartitionTotal(<< >>) = Whole(1)
  /\ Normalized(<< >>) = << >>

\* ------------------------------------------------------------ properties: the loads

NothingAggregated ==
  /\ stockGroups = << >>
  /\ cryptoGroups = << >>
  /\ stocks = << >>
  /\ cryptos = << >>
  /\ stocksSel = << >>
  /\ cryptosSel = << >>
  /\ ~charts

MarketLoads == {stocksCsv, cryptoCsv}

TreeLoads == {treeCsv[f] : f \in TreeFileNames}

\* C8 (as amended): for each of the two render requests of the page,
\* renderMarketViz with its two loads and the treemap with its three, the
\* aggregation starts only once every load of the request is fulfilled,
\* whatever the order in which the loads settle; when a load of the request
\* is rejected the failure is reported (the red message of renderMarketViz,
\* the console error of the treemap) and nothing of that request is
\* aggregated, selected, built or drawn.
C8_NoPartialRender ==
  /\ (Folded \/ ~NothingAggregated) => AllFulfilled(MarketLoads)
  /\ SomeRejected(MarketLoads) =>
       /\ NothingAggregated
       /\ mPc \in {"loading", "error"}
       /\ mPc = "loading" => ENABLED LoadError
       /\ mPc = "error" => message = "Error loading CSV files"
  /\ (tPc = "rendered" \/ treeData # NoTree) => AllFulfilled(TreeLoads)
  /\ SomeRejected(TreeLoads) =>
       /\ treeData = NoTree
       /\ tPc \in {"loading", "error"}
       /\ tPc = "loading" => ENABLED TreemapCatch
       /\ tPc = "error" => consoleError

\* A load of the treemap failed beside one that delivered rows, the failure
\* was logged and no hierarchy was built, while renderMarketViz, on the same
\* page, drew its charts from its own files
C8_Witness ==
  /\ tPc = "error"
  /\ consoleError
  /\ treeCsv["crypto"].state = "rejected"
  /\ treeCsv["stocks"].state = "fulfilled"
  /\ ValidTreeStock # {}
  /\ treeData = NoTree
  /\ Done
  /\ charts
  /\ Len(stocksSel) = 1

\* C8 as stated, over the loads of the page: when any one of them fails
\* nothing is aggregated, selected, built or drawn from the files that did
\* load.
C8_Original ==
  /\ C8_NoPartialRender
  /\ SomeRejected(MarketLoads \cup TreeLoads) =>
       /\ NothingAggregated
       /\ treeData = NoTree

====
